---- MODULE Spec2Model ----
(***************************************************************************)
(* A model of gopdf (src/main.go, lines 1-603): the document object model, *)
(* the per-page content-stream builder and the serializer with its         *)
(* cross-reference table.                                                  *)
(*                                                                         *)
(* Go strings and []byte are modelled as sequences of byte values 0..255.  *)
(* Pointers are addresses into `heap`; the nil pointer is NIL.             *)
(***************************************************************************)
EXTENDS Integers, Sequences, FiniteSets

VARIABLES
    heap,         \* every allocated object, by address: the fields of each struct
    objects,      \* PdfDocument.objects: addresses, in registration order
    catalog,      \* PdfDocument.catalog
    resources,    \* PdfDocument.resources
    currentPage,  \* PdfDocument.currentPage
    out,          \* the bytes returned by the last call when it was Bytes(), else <<>>
    last,         \* the last call made on the document and how it ended
    ncalls        \* the calls made so far that count against the bound of the run

vars == <<heap, objects, catalog, resources, currentPage, out, last, ncalls>>

NIL == 0

(***************************************************************************)
(* Bytes and text                                                          *)
(***************************************************************************)

\* The printable ASCII characters in code order: 32 (space) to 95 (_), and
\* 97 (a) to 126 (~). Code 96 cannot be written in a string and no literal of
\* the source uses it.
AsciiLow == " !\"#$%&'()*+,-./0123456789:;<=>?@ABCDEFGHIJKLMNOPQRSTUVWXYZ[\\]^_"
AsciiHigh == "abcdefghijklmnopqrstuvwxyz{|}~"

\* The byte value of each character a literal of the source uses.
OrdTable ==
    [c \in {SubSeq(AsciiLow, i, i) : i \in 1..Len(AsciiLow)}
            \cup {SubSeq(AsciiHigh, i, i) : i \in 1..Len(AsciiHigh)}
            \cup {"\r", "\n"} |->
        IF c = "\r" THEN 13
        ELSE IF c = "\n" THEN 10
        ELSE IF \E i \in 1..Len(AsciiLow) : SubSeq(AsciiLow, i, i) = c
             THEN 31 + (CHOOSE i \in 1..Len(AsciiLow) : SubSeq(AsciiLow, i, i) = c)
             ELSE 96 + (CHOOSE i \in 1..Len(AsciiHigh) : SubSeq(AsciiHigh, i, i) = c)]

\* The bytes of an ASCII string literal.
B(s) == [i \in 1..Len(s) |-> OrdTable[SubSeq(s, i, i)]]

CRLF == B("\r\n")

RECURSIVE Digits(_)
\* The decimal digits of a natural number, most significant first.
Digits(n) == IF n < 10 THEN <<48 + n>> ELSE Digits(n \div 10) \o <<48 + (n % 10)>>

\* fmt's %v of an int.
Itoa(n) == IF n < 0 THEN <<45>> \o Digits(-n) ELSE Digits(n)

RECURSIVE Zeros(_)
Zeros(k) == IF k <= 0 THEN <<>> ELSE <<48>> \o Zeros(k - 1)

\* fmt's %010d of a non-negative int: zero-padded to ten digits, never truncated.
Pad10(n) == Zeros(10 - Len(Digits(n))) \o Digits(n)

RECURSIVE Utf8(_)
\* The UTF-8 encoding of a sequence of code points below 0x800, as Go encodes
\* the \u escapes of a string literal.
Utf8(runes) ==
    IF runes = <<>> THEN <<>>
    ELSE LET r == Head(runes)
         IN  (IF r < 128 THEN <<r>> ELSE <<192 + (r \div 64), 128 + (r % 64)>>)
             \o Utf8(Tail(runes))

\* The width in bytes of the rune Go's `range` decodes at index i of s:
\* a well-formed multi-byte sequence has its full width, anything else 1.
IsCont(s, j) == j <= Len(s) /\ s[j] >= 128 /\ s[j] <= 191
RuneWidth(s, i) ==
    LET b == s[i]
        second(lo, hi) == i + 1 <= Len(s) /\ s[i + 1] >= lo /\ s[i + 1] <= hi
    IN  IF b < 128 THEN 1
        ELSE IF b >= 194 /\ b <= 223 THEN (IF IsCont(s, i + 1) THEN 2 ELSE 1)
        ELSE IF b >= 224 /\ b <= 239 THEN
            (IF /\ second(IF b = 224 THEN 160 ELSE 128, IF b = 237 THEN 159 ELSE 191)
                /\ IsCont(s, i + 2)
             THEN 3 ELSE 1)
        ELSE IF b >= 240 /\ b <= 244 THEN
            (IF /\ second(IF b = 240 THEN 144 ELSE 128, IF b = 244 THEN 143 ELSE 191)
                /\ IsCont(s, i + 2) /\ IsCont(s, i + 3)
             THEN 4 ELSE 1)
        ELSE 1

(***************************************************************************)
(* The 14 core fonts                                                       *)
(***************************************************************************)
Courier == 1
CourierBold == 2
CourierBoldOblique == 3
CourierOblique == 4
Helvetica == 5
HelveticaBold == 6
HelveticaBoldOblique == 7
HelveticaOblique == 8
TimesRoman == 9
TimesBold == 10
TimesItalic == 11
TimesBoldItalic == 12
Symbol == 13
ZapfDingbats == 14

BaseFontName(font) ==
    CASE font = Courier -> "Courier"
      [] font = CourierBold -> "Courier-Bold"
      [] font = CourierBoldOblique -> "Courier-BoldOblique"
      [] font = CourierOblique -> "Courier-Oblique"
      [] font = Helvetica -> "Helvetica"
      [] font = HelveticaBold -> "Helvetica-Bold"
      [] font = HelveticaBoldOblique -> "Helvetica-BoldOblique"
      [] font = HelveticaOblique -> "Helvetica-Oblique"
      [] font = TimesRoman -> "Times-Roman"
      [] font = TimesBold -> "Times-Bold"
      [] font = TimesBoldItalic -> "Times-BoldItalic"
      [] font = TimesItalic -> "Times-Italic"
      [] font = Symbol -> "Symbol"
      [] font = ZapfDingbats -> "ZapfDingbats"

\* The switch of NewFont has a case for font: any other value panics.
KnownFont(font) == font \in Courier..ZapfDingbats

\* NewFont: the font record for a known font (id and document are not set yet).
NewFont(name, font) ==
    [kind |-> "Font", id |-> 0, name |-> name,
     baseFont |-> B(BaseFontName(font)),
     subtype |-> B("Type1"),
     encoding |-> IF font \in {Symbol, ZapfDingbats}
                  THEN B("StandardEncoding") ELSE B("WinAnsiEncoding")]

(***************************************************************************)
(* The document: a record of the five state variables, so that the         *)
(* operations compose as the methods of PdfDocument do.                    *)
(***************************************************************************)
Doc == [heap |-> heap, objects |-> objects, catalog |-> catalog,
        resources |-> resources, currentPage |-> currentPage]

\* new(T) / a composite literal whose address is taken: the next free address.
Alloc(d, obj) == [d EXCEPT !.heap = Append(@, obj)]
NewAddr(d) == Len(d.heap) + 1

\* addObject numbering from 0: o.setID(len(d.objects)).
addObjectZeroBased(d, a) ==
    [d EXCEPT !.heap[a].id = Len(d.objects),
              !.objects = Append(@, a)]

\* PdfDocument.addObject: o.setID(len(d.objects) + 1); append.
addObject(d, a) ==
    [d EXCEPT !.heap[a].id = Len(d.objects) + 1,
              !.objects = Append(@, a)]

\* addPage registering the Content before the Page.
addPageContentFirst(d) ==
    LET p == NewAddr(d)
        c == p + 1
        page == [kind |-> "Page", id |-> 0,
                 parent |-> d.heap[d.catalog].pdfPages, content |-> c, font |-> NIL,
                 fontSize |-> 10, height |-> 842, width |-> 595, x |-> 72, y |-> 760,
                 leftMargin |-> 72, rightMargin |-> 72,
                 topMargin |-> 72, bottomMargin |-> 72]
        content == [kind |-> "Content", id |-> 0,
                    text |-> B("/F1 10 Tf\r\n1 0 0 1 72 -29 Tm\r\n10 TL\r\n"),
                    lines |-> <<>>, graphics |-> B("0.5 w\r\n")]
        d1 == Alloc(Alloc(d, page), content)
        d2 == [d1 EXCEPT !.currentPage = p,
                         !.heap[d.heap[d.catalog].pdfPages].pages = Append(@, p)]
    IN  addObject(addObject(d2, c), p)

\* addPage putting the new Page first in the PageTree's list.
addPagePrepend(d) ==
    LET p == NewAddr(d)
        c == p + 1
        page == [kind |-> "Page", id |-> 0,
                 parent |-> d.heap[d.catalog].pdfPages, content |-> c, font |-> NIL,
                 fontSize |-> 10, height |-> 842, width |-> 595, x |-> 72, y |-> 760,
                 leftMargin |-> 72, rightMargin |-> 72,
                 topMargin |-> 72, bottomMargin |-> 72]
        content == [kind |-> "Content", id |-> 0,
                    text |-> B("/F1 10 Tf\r\n1 0 0 1 72 -29 Tm\r\n10 TL\r\n"),
                    lines |-> <<>>, graphics |-> B("0.5 w\r\n")]
        d1 == Alloc(Alloc(d, page), content)
        d2 == [d1 EXCEPT !.currentPage = p,
                         !.heap[d.heap[d.catalog].pdfPages].pages = <<p>> \o @]
    IN  addObject(addObject(d2, p), c)

\* PdfDocument.addPage: the Page is allocated, then its Content; the Page is
\* appended to the PageTree and registered, then the Content is registered.
addPage(d) ==
    LET p == NewAddr(d)
        c == p + 1
        p0 == [kind |-> "Page", id |-> 0,
               parent |-> d.heap[d.catalog].pdfPages, content |-> NIL, font |-> NIL,
               fontSize |-> 10, height |-> 842, width |-> 595,
               x |-> 0, y |-> 0,
               leftMargin |-> 72, rightMargin |-> 72,
               topMargin |-> 72, bottomMargin |-> 72]
        page == [p0 EXCEPT !.x = p0.leftMargin,
                           !.y = p0.height - p0.topMargin - p0.fontSize,
                           !.content = c]
        content == [kind |-> "Content", id |-> 0,
                    text |-> B("/F1 10 Tf\r\n1 0 0 1 72 -29 Tm\r\n10 TL\r\n"),
                    lines |-> <<>>,
                    graphics |-> B("0.5 w\r\n")]
        d1 == Alloc(Alloc(d, page), content)
        d2 == [d1 EXCEPT !.currentPage = p,
                         !.heap[d.heap[d.catalog].pdfPages].pages = Append(@, p)]
    IN  addObject(addObject(d2, p), c)

\* NewPdfDocument
NewPdfDocument ==
    LET d0 == [heap |-> <<>>, objects |-> <<>>, catalog |-> NIL,
               resources |-> NIL, currentPage |-> NIL]
        d1 == addObject([Alloc(d0, [kind |-> "Catalog", id |-> 0,
                                    outlines |-> NIL, pdfPages |-> NIL])
                            EXCEPT !.catalog = 1], 1)
        d2 == addObject([Alloc(d1, [kind |-> "Pages", id |-> 0, pages |-> <<>>])
                            EXCEPT !.heap[1].pdfPages = 2], 2)
        d3 == addObject([Alloc(d2, [kind |-> "Outlines", id |-> 0])
                            EXCEPT !.heap[1].outlines = 3], 3)
        d4 == addObject([Alloc(d3, [kind |-> "Resources", id |-> 0,
                                    fonts |-> <<>>, images |-> <<>>])
                            EXCEPT !.resources = 4], 4)
    IN  addPage(d4)

\* addFont registering the font without listing it in the Resources.
addFontUnlisted(d, name, font) ==
    LET f == NewAddr(d)
    IN  addObject(Alloc(d, NewFont(name, font)), f)

\* PdfDocument.addFont, for a font NewFont accepts.
addFont(d, name, font) ==
    LET f == NewAddr(d)
        d1 == addObject(Alloc(d, NewFont(name, font)), f)
    IN  [d1 EXCEPT !.heap[d.resources].fonts = Append(@, f)]

(***************************************************************************)
(* Images: decode, flatten to RGB, compress, ASCII85-encode                *)
(***************************************************************************)

\* The files addImage is given in this model. os.Open fails on "missing.jpg",
\* image.Decode fails on "corrupt.jpg"; the others decode to width x height
\* pixels, row-major, each the 16-bit (r, g, b) that Color.RGBA() returns.
FileNames == {"gopher.jpg", "wide.png", "missing.jpg", "corrupt.jpg"}
Opens(filename) == filename # "missing.jpg"
Decodes(filename) == filename \in {"gopher.jpg", "wide.png"}
Decoded(filename) ==
    IF filename = "gopher.jpg"
    THEN [width |-> 1, height |-> 1, pix |-> << <<65535, 32896, 0>> >>]
    ELSE [width |-> 2, height |-> 1, pix |-> << <<0, 0, 0>>, <<257, 514, 65535>> >>]

RECURSIVE Flatten(_)
\* loadImage's pixel loop: byte(r>>8), byte(g>>8), byte(b>>8) of each pixel.
Flatten(pix) ==
    IF pix = <<>> THEN <<>>
    ELSE LET c == Head(pix)
         IN  <<(c[1] \div 256) % 256, (c[2] \div 256) % 256, (c[3] \div 256) % 256>>
             \o Flatten(Tail(pix))

RECURSIVE AdlerA(_)
AdlerA(data) ==
    IF data = <<>> THEN 1
    ELSE (AdlerA(SubSeq(data, 1, Len(data) - 1)) + data[Len(data)]) % 65521
RECURSIVE AdlerB(_)
AdlerB(data) ==
    IF data = <<>> THEN 0
    ELSE (AdlerB(SubSeq(data, 1, Len(data) - 1)) + AdlerA(data)) % 65521

\* zlib.NewWriter(...).Write(data); Close(). The compressor is Go's library:
\* the model writes the stream in the stored-block form of the same format
\* (header 78 9C, one final stored block, the Adler-32 of the data), which
\* any inflater reads back to data.
Zlib(data) ==
    <<120, 156, 1, Len(data) % 256, Len(data) \div 256,
      255 - (Len(data) % 256), 255 - (Len(data) \div 256)>>
    \o data
    \o <<AdlerB(data) \div 256, AdlerB(data) % 256,
         AdlerA(data) \div 256, AdlerA(data) % 256>>

\* One step of the base-85 conversion of a 4-byte big-endian number:
\* the quotient by 85 (again 4 bytes) and the remainder.
Div85(g) ==
    LET r1 == g[1] % 85
        n2 == r1 * 256 + g[2]
        n3 == (n2 % 85) * 256 + g[3]
        n4 == (n3 % 85) * 256 + g[4]
    IN  [q |-> <<g[1] \div 85, n2 \div 85, n3 \div 85, n4 \div 85>>, r |-> n4 % 85]

\* The five base-85 digits of a 4-byte group, most significant first, as '!'..'u'.
Group85(g) ==
    LET s1 == Div85(g)
        s2 == Div85(s1.q)
        s3 == Div85(s2.q)
        s4 == Div85(s3.q)
        s5 == Div85(s4.q)
    IN  <<33 + s5.r, 33 + s4.r, 33 + s3.r, 33 + s2.r, 33 + s1.r>>

RECURSIVE Ascii85(_)
\* ascii85.NewEncoder(...) fed all of src, then Close(): a full group of four
\* zero bytes is "z", any other full group five characters, and a final
\* group of n < 4 bytes, padded with zeros, its first n+1 characters.
Ascii85(src) ==
    IF src = <<>> THEN <<>>
    ELSE IF Len(src) >= 4
    THEN (IF SubSeq(src, 1, 4) = <<0, 0, 0, 0>> THEN <<122>>
          ELSE Group85(SubSeq(src, 1, 4)))
         \o Ascii85(SubSeq(src, 5, Len(src)))
    ELSE SubSeq(Group85([i \in 1..4 |-> IF i <= Len(src) THEN src[i] ELSE 0]),
                1, Len(src) + 1)

\* PdfImage.loadImage, for a file that opens and decodes.
loadImage(name, filename) ==
    LET img == Decoded(filename)
    IN  [kind |-> "Image", id |-> 0, name |-> name,
         width |-> img.width, height |-> img.height,
         ascii85data |-> Ascii85(Zlib(Flatten(img.pix)))]

\* PdfDocument.addImage, for a file that opens and decodes.
addImage(d, name, filename) ==
    LET i == NewAddr(d)
        d1 == addObject(Alloc(d, loadImage(name, filename)), i)
    IN  [d1 EXCEPT !.heap[d.resources].images = Append(@, i)]

(***************************************************************************)
(* Rendering: the bytes() method of each kind of object                    *)
(***************************************************************************)

\* PdfObject.objectRef
objectRef(o) == Itoa(o.id) \o B(" 0 R")

FontBytes(f) ==
    Itoa(f.id) \o B(" 0 obj\r\n")
    \o B("<<\r\n")
    \o B("/Type /Font \r\n")
    \o B("/Subtype /") \o f.subtype \o B(" \r\n")
    \o B("/Name /") \o f.name \o B(" \r\n")
    \o B("/BaseFont /") \o f.baseFont \o B(" \r\n")
    \o (IF f.encoding # B("StandardEncoding")
        THEN B("/Encoding /") \o f.encoding \o B("\r\n") ELSE <<>>)
    \o B(">>\r\n")
    \o B("endobj\r\n")

ImageBytes(pi) ==
    Itoa(pi.id) \o B(" 0 obj\r\n")
    \o B("<<\r\n")
    \o B("/Type /XObject\r\n")
    \o B("/Subtype /Image\r\n")
    \o B("/Name /") \o pi.name \o B("\r\n")
    \o B("/Width ") \o Itoa(pi.width) \o B("\r\n")
    \o B("/Height ") \o Itoa(pi.height) \o B("\r\n")
    \o B("/BitsPerComponent 8\r\n")
    \o B("/ColorSpace /DeviceRGB\r\n")
    \o B("/Filter [ /ASCII85Decode /FlateDecode ]\r\n")
    \o B("/Predictor 1\r\n")
    \o B("/Length ") \o Itoa(Len(pi.ascii85data)) \o B("\r\n")
    \o B(">>\r\n")
    \o B("stream\r\n")
    \o pi.ascii85data
    \o B("endstream\r\n")
    \o B("endobj\r\n")

\* The stream PdfPageContent.bytes builds from the three buffers.
ContentStream(c) ==
    B("BT\r\n") \o c.text \o B("\r\nET\r\n") \o c.lines \o B("S\r\n") \o c.graphics

\* PdfPageContent.bytes declaring the length of the text buffer alone.
ContentBytesTextLength(c) ==
    Itoa(c.id) \o B(" 0 obj\r\n")
    \o B("<<\r\n")
    \o B("/Length ") \o Itoa(Len(c.text)) \o B("\r\n")
    \o B(">>\r\n")
    \o B("stream\r\n")
    \o ContentStream(c)
    \o B("endstream\r\n")
    \o B("endobj\r\n")

ContentBytes(c) ==
    Itoa(c.id) \o B(" 0 obj\r\n")
    \o B("<<\r\n")
    \o B("/Length ") \o Itoa(Len(ContentStream(c))) \o B("\r\n")
    \o B(">>\r\n")
    \o B("stream\r\n")
    \o ContentStream(c)
    \o B("endstream\r\n")
    \o B("endobj\r\n")

PageBytes(d, p) ==
    Itoa(p.id) \o B(" 0 obj\r\n")
    \o B("<<\r\n")
    \o B("/Type /Page\r\n")
    \o B("/Parent ") \o objectRef(d.heap[p.parent]) \o B("\r\n")
    \o B("/Resources ") \o objectRef(d.heap[d.resources]) \o B("\r\n")
    \o B("/Contents ") \o objectRef(d.heap[p.content]) \o B("\r\n")
    \o B(">>\r\n")
    \o B("endobj\r\n")

RECURSIVE Kids(_, _)
\* The loop of PdfPages.bytes: each page's reference followed by a space.
Kids(d, pages) ==
    IF pages = <<>> THEN <<>>
    ELSE objectRef(d.heap[Head(pages)]) \o B(" ") \o Kids(d, Tail(pages))

PagesBytes(d, p) ==
    Itoa(p.id) \o B(" 0 obj\r\n")
    \o B("<<\r\n")
    \o B("/Type /Pages\r\n")
    \o B("/MediaBox [ 0 0 595 842 ]\r\n")
    \o B("/Count ") \o Itoa(Len(p.pages)) \o B("\r\n")
    \o B("/Kids [ ") \o Kids(d, p.pages) \o B("]\r\n")
    \o B(">>\r\n")
    \o B("endobj\r\n")

OutlinesBytes(o) ==
    Itoa(o.id) \o B(" 0 obj\r\n")
    \o B("<<\r\n")
    \o B("/Type /Outlines\r\n")
    \o B("/Count 0\r\n")
    \o B(">>\r\n")
    \o B("endobj\r\n")

CatalogBytes(d, c) ==
    Itoa(c.id) \o B(" 0 obj\r\n")
    \o B("<<\r\n")
    \o B("/Type /Catalog \r\n")
    \o B("/Outlines ") \o objectRef(d.heap[c.outlines]) \o B("\r\n")
    \o B("/Pages ") \o objectRef(d.heap[c.pdfPages]) \o B("\r\n")
    \o B(">>\r\n")
    \o B("endobj\r\n")

RECURSIVE NamedRefs(_, _)
\* The loops of PdfResources.bytes: "/<name> <ref> " for each font or image.
NamedRefs(d, addrs) ==
    IF addrs = <<>> THEN <<>>
    ELSE B("/") \o d.heap[Head(addrs)].name \o B(" ")
         \o objectRef(d.heap[Head(addrs)]) \o B(" ")
         \o NamedRefs(d, Tail(addrs))

ResourcesBytes(d, r) ==
    Itoa(r.id) \o B(" 0 obj\r\n")
    \o B("<<\r\n")
    \o B("/Procset ") \o B("[ /PDF ")
        \o (IF Len(r.fonts) > 0 THEN B("/Text ") ELSE <<>>)
        \o (IF Len(r.images) > 0 THEN B("/ImageB ") ELSE <<>>)
        \o B("]") \o B("\r\n")
    \o (IF Len(r.fonts) > 0
        THEN B("/Font << ") \o NamedRefs(d, r.fonts) \o B(">>\r\n") ELSE <<>>)
    \o (IF Len(r.images) > 0
        THEN B("/XObject << ") \o NamedRefs(d, r.images) \o B(">>\r\n") ELSE <<>>)
    \o B(">>\r\n")
    \o B("endobj\r\n")

\* obj.bytes(): the method of the object's dynamic type.
ObjectBytes(d, a) ==
    LET o == d.heap[a]
    IN  CASE o.kind = "Font" -> FontBytes(o)
          [] o.kind = "Image" -> ImageBytes(o)
          [] o.kind = "Content" -> ContentBytes(o)
          [] o.kind = "Page" -> PageBytes(d, o)
          [] o.kind = "Pages" -> PagesBytes(d, o)
          [] o.kind = "Outlines" -> OutlinesBytes(o)
          [] o.kind = "Catalog" -> CatalogBytes(d, o)
          [] o.kind = "Resources" -> ResourcesBytes(d, o)

(***************************************************************************)
(* The serializer                                                          *)
(***************************************************************************)

\* The two header lines: "%PDF-1.2" and the binary marker, whose four
\* characters U+00E2 U+00E3 U+00CF U+00D3 Go writes in UTF-8.
Header == B("%PDF-1.2\r\n") \o B("%") \o Utf8(<<226, 227, 207, 211>>) \o CRLF

RECURSIVE WriteObjectsOffsetAfter(_, _, _)
\* The object loop taking buf.Len() after the object is written.
WriteObjectsOffsetAfter(d, i, w) ==
    IF i > Len(d.objects) THEN w
    ELSE WriteObjectsOffsetAfter(d, i + 1,
            [buf |-> w.buf \o ObjectBytes(d, d.objects[i]),
             xref |-> Append(w.xref, Len(w.buf \o ObjectBytes(d, d.objects[i])))])

RECURSIVE WriteObjects(_, _, _)
\* The object loop of Bytes from index i on: w.buf is the buffer and w.xref the
\* offsets recorded so far. xref[i] = buf.Len() is taken before obj.bytes()
\* is written.
WriteObjects(d, i, w) ==
    IF i > Len(d.objects) THEN w
    ELSE WriteObjects(d, i + 1,
            [buf |-> w.buf \o ObjectBytes(d, d.objects[i]),
             xref |-> Append(w.xref, Len(w.buf))])

RECURSIVE XrefLines(_)
XrefLines(xref) ==
    IF xref = <<>> THEN <<>>
    ELSE Pad10(Head(xref)) \o B(" 00000 n\r\n") \o XrefLines(Tail(xref))

\* Bytes() declaring in /Size the number of entries of the cross-reference
\* section, the free entry included.
DocBytesSizeWithFree(d) ==
    LET w == WriteObjects(d, 1, [buf |-> Header, xref |-> <<>>])
        startxref == Len(w.buf)
    IN  w.buf
        \o B("xref\r\n")
        \o B("0 ") \o Itoa(Len(d.objects) + 1) \o B(" \r\n")
        \o B("0000000000 65535 f\r\n")
        \o XrefLines(w.xref)
        \o B("trailer\r\n")
        \o B("<<\r\n")
        \o B("/Size ") \o Itoa(Len(w.xref) + 1) \o B("\r\n")
        \o B("/Root ") \o objectRef(d.heap[d.catalog]) \o B("\r\n")
        \o B(">> \r\n")
        \o B("startxref\r\n")
        \o Itoa(startxref) \o B("\r\n")
        \o B("%%EOF\r\n")

\* PdfDocument.Bytes
DocBytes(d) ==
    LET w == WriteObjects(d, 1, [buf |-> Header, xref |-> <<>>])
        startxref == Len(w.buf)
    IN  w.buf
        \o B("xref\r\n")
        \o B("0 ") \o Itoa(Len(d.objects) + 1) \o B(" \r\n")
        \o B("0000000000 65535 f\r\n")
        \o XrefLines(w.xref)
        \o B("trailer\r\n")
        \o B("<<\r\n")
        \o B("/Size ") \o Itoa(Len(w.xref)) \o B("\r\n")
        \o B("/Root ") \o objectRef(d.heap[d.catalog]) \o B("\r\n")
        \o B(">> \r\n")
        \o B("startxref\r\n")
        \o Itoa(startxref) \o B("\r\n")
        \o B("%%EOF\r\n")

(***************************************************************************)
(* The content-stream builder: the methods of PdfPage. Each takes the      *)
(* document and the address p of the page and yields the document after    *)
(* the call, and whether the call returned (ok) or panicked.               *)
(***************************************************************************)
Returned(d) == [ok |-> TRUE, d |-> d]
Panicked(d) == [ok |-> FALSE, d |-> d]

ContentOf(d, p) == d.heap[p].content

RECURSIVE FirstNamed(_, _, _, _)
\* The lookup loop leaving at the first element whose name is `name`.
FirstNamed(d, addrs, name, found) ==
    IF addrs = <<>> THEN found
    ELSE IF d.heap[Head(addrs)].name = name THEN Head(addrs)
    ELSE FirstNamed(d, Tail(addrs), name, found)

RECURSIVE LastNamed(_, _, _, _)
\* The lookup loops of setFont and drawImage: every element whose name is
\* `name` overwrites the result, which starts as `found`.
LastNamed(d, addrs, name, found) ==
    IF addrs = <<>> THEN found
    ELSE LastNamed(d, Tail(addrs), name,
                   IF d.heap[Head(addrs)].name = name THEN Head(addrs) ELSE found)

\* The "/<font name> <size> Tf" line that setFont and setFontSize append.
FontLine(d, p) ==
    B("/") \o d.heap[d.heap[p].font].name \o B(" ") \o Itoa(d.heap[p].fontSize)
    \o B(" Tf\r\n")

\* PdfPage.setFont: p.font.name is read through a nil pointer when no font
\* matched and none was selected before.
setFont(d, p, name) ==
    LET f == LastNamed(d, d.heap[d.resources].fonts, name, d.heap[p].font)
        d1 == [d EXCEPT !.heap[p].font = f]
    IN  IF f = NIL THEN Panicked(d1)
        ELSE Returned([d1 EXCEPT !.heap[ContentOf(d, p)].text = @ \o FontLine(d1, p)])

\* PdfPage.setFontSize: the size is stored before p.font.name is read.
setFontSize(d, p, size) ==
    LET d1 == [d EXCEPT !.heap[p].fontSize = size]
    IN  IF d.heap[p].font = NIL THEN Panicked(d1)
        ELSE Returned([d1 EXCEPT !.heap[ContentOf(d, p)].text = @ \o FontLine(d1, p)])

RECURSIVE EscapeFrom(_, _)
\* The loop of outputText, `for i := range text { b := text[i] ... }`: i takes
\* the index at which each rune of text starts, and b is the byte there.
EscapeFrom(text, i) ==
    IF i > Len(text) THEN <<>>
    ELSE LET b == text[i]
         IN  (IF b = 40 THEN B("\\(")
              ELSE IF b = 41 THEN B("\\)")
              ELSE IF b = 92 THEN B("\\\\")
              ELSE <<b>>)
             \o EscapeFrom(text, i + RuneWidth(text, i))

\* outputText adding the margins to the cursor, as a cursor relative to the
\* top left corner of the text area needs.
outputTextMargins(d, p, text) ==
    LET pg == d.heap[p]
    IN  [d EXCEPT !.heap[pg.content].text =
            @ \o B("1 0 0 1 ") \o Itoa(pg.leftMargin + pg.x) \o B(" ")
              \o Itoa(pg.height - pg.topMargin - pg.y - pg.fontSize) \o B(" Tm\r\n")
              \o B("(") \o EscapeFrom(text, 1) \o B(") Tj\r\n")]

\* PdfPage.outputText
outputText(d, p, text) ==
    LET pg == d.heap[p]
    IN  [d EXCEPT !.heap[pg.content].text =
            @ \o B("1 0 0 1 ") \o Itoa(pg.x) \o B(" ") \o Itoa(pg.y) \o B(" Tm\r\n")
              \o B("(") \o EscapeFrom(text, 1) \o B(") Tj\r\n")]

\* PdfPage.print
print(d, p, text) ==
    LET d1 == outputText(d, p, text)
    IN  [d1 EXCEPT !.heap[p].x = @ + Len(text) * d1.heap[p].fontSize]

\* println of a cursor kept relative to the top left corner of the text
\* area: x back to 0 and y growing downwards.
printlnTopLeft(d, p, text) ==
    LET d1 == outputText(d, p, text)
    IN  [d1 EXCEPT !.heap[p].x = 0,
                   !.heap[p].y = @ + d1.heap[p].fontSize]

\* PdfPage.println
println(d, p, text) ==
    LET d1 == outputText(d, p, text)
    IN  [d1 EXCEPT !.heap[p].x = d1.heap[p].leftMargin,
                   !.heap[p].y = @ - d1.heap[p].fontSize]

\* PdfPage.drawImage: i.width is read through a nil pointer when no image matched.
drawImage(d, p, name, x, y) ==
    LET i == LastNamed(d, d.heap[d.resources].images, name, NIL)
    IN  IF i = NIL THEN Panicked(d)
        ELSE Returned([d EXCEPT !.heap[ContentOf(d, p)].graphics =
                @ \o B("q\r\n")
                  \o Itoa(d.heap[i].width) \o B(" 0 0 ") \o Itoa(d.heap[i].height)
                  \o B(" ") \o Itoa(x) \o B(" ") \o Itoa(y) \o B(" cm\r\n")
                  \o B("/") \o name \o B(" Do\r\n")
                  \o B("Q\r\n")])

\* PdfPage.drawBox
drawBox(d, p, x, y, w, h) ==
    [d EXCEPT !.heap[ContentOf(d, p)].lines =
        @ \o Itoa(x) \o B(" ") \o Itoa(y) \o B(" ") \o Itoa(w) \o B(" ") \o Itoa(h)
          \o B(" re\r\n")]

\* PdfPage.drawLine
drawLine(d, p, x1, y1, x2, y2) ==
    [d EXCEPT !.heap[ContentOf(d, p)].lines =
        @ \o Itoa(x1) \o B(" ") \o Itoa(y1) \o B(" m\r\n")
          \o Itoa(x2) \o B(" ") \o Itoa(y2) \o B(" l\r\n")]

\* setColour starting the text buffer again from the colour instruction.
setColourReplacing(d, p, red, green, blue) ==
    [d EXCEPT !.heap[ContentOf(d, p)].text =
        Itoa(red) \o B(" ") \o Itoa(green) \o B(" ") \o Itoa(blue) \o B(" rg\r\n")]

\* PdfPage.setColour
setColour(d, p, red, green, blue) ==
    [d EXCEPT !.heap[ContentOf(d, p)].text =
        @ \o Itoa(red) \o B(" ") \o Itoa(green) \o B(" ") \o Itoa(blue) \o B(" rg\r\n")]

\* main's `page.x = 300; page.y = 440`: the caller moves the cursor itself.
setCursor(d, p, x, y) == [d EXCEPT !.heap[p].x = x, !.heap[p].y = y]

(***************************************************************************)
(* The state machine: one action per call a program makes on a document.   *)
(* Nothing in the source recovers from a panic, so a call that panics is   *)
(* the last step of a behaviour.                                           *)
(***************************************************************************)
Running == last.ok

SetDoc(d) ==
    /\ heap' = d.heap
    /\ objects' = d.objects
    /\ catalog' = d.catalog
    /\ resources' = d.resources
    /\ currentPage' = d.currentPage

\* A call other than Bytes(): it leaves the document r.d and returns no bytes.
Call(op, p, arg, r) ==
    /\ Running
    /\ SetDoc(r.d)
    /\ out' = <<>>
    /\ last' = [op |-> op, page |-> p, arg |-> arg, ok |-> r.ok]

\* The pages of the PageTree.
PageList == heap[heap[catalog].pdfPages].pages
PageAddrs == {PageList[k] : k \in 1..Len(PageList)}

Init ==
    /\ heap = NewPdfDocument.heap
    /\ objects = NewPdfDocument.objects
    /\ catalog = NewPdfDocument.catalog
    /\ resources = NewPdfDocument.resources
    /\ currentPage = NewPdfDocument.currentPage
    /\ out = <<>>
    /\ last = [op |-> "NewPdfDocument", page |-> NIL, arg |-> <<>>, ok |-> TRUE]
    /\ ncalls = 0

AddPage == Call("addPage", NIL, <<>>, Returned(addPage(Doc)))

\* addFont registering an empty PdfFont before NewFont checks the code.
AddFontRegisterFirst(name, font) ==
    Call("addFont", NIL, <<name, font>>,
         IF KnownFont(font) THEN Returned(addFont(Doc, name, font))
         ELSE Panicked(addObject(Alloc(Doc, [kind |-> "Font", id |-> 0, name |-> <<>>,
                                             baseFont |-> <<>>, subtype |-> <<>>,
                                             encoding |-> <<>>]),
                                 NewAddr(Doc))))

\* NewFont panics before anything is allocated or registered.
AddFont(name, font) ==
    Call("addFont", NIL, <<name, font>>,
         IF KnownFont(font) THEN Returned(addFont(Doc, name, font)) ELSE Panicked(Doc))

\* loadImage panics when the file cannot be opened or decoded, before addObject.
AddImage(name, filename) ==
    Call("addImage", NIL, <<name, filename>>,
         IF Opens(filename) /\ Decodes(filename)
         THEN Returned(addImage(Doc, name, filename)) ELSE Panicked(Doc))

SetFont(p, name) == Call("setFont", p, <<name>>, setFont(Doc, p, name))
SetFontSize(p, size) == Call("setFontSize", p, <<size>>, setFontSize(Doc, p, size))
OutputText(p, text) == Call("outputText", p, <<text>>, Returned(outputText(Doc, p, text)))
PrintCall(p, text) == Call("print", p, <<text>>, Returned(print(Doc, p, text)))
Println(p, text) == Call("println", p, <<text>>, Returned(println(Doc, p, text)))
DrawImage(p, name, x, y) == Call("drawImage", p, <<name, x, y>>, drawImage(Doc, p, name, x, y))
DrawBox(p, x, y, w, h) ==
    Call("drawBox", p, <<x, y, w, h>>, Returned(drawBox(Doc, p, x, y, w, h)))
DrawLine(p, x1, y1, x2, y2) ==
    Call("drawLine", p, <<x1, y1, x2, y2>>, Returned(drawLine(Doc, p, x1, y1, x2, y2)))
SetColour(p, r, g, b) ==
    Call("setColour", p, <<r, g, b>>, Returned(setColour(Doc, p, r, g, b)))
SetCursor(p, x, y) == Call("setCursor", p, <<x, y>>, Returned(setCursor(Doc, p, x, y)))

\* Bytes() with a PdfPageContent.bytes that keeps the stroke instruction it
\* writes in the lines buffer.
BytesFlushing ==
    /\ Running
    /\ out' = DocBytes(Doc)
    /\ last' = [op |-> "Bytes", page |-> NIL,
                arg |-> <<IF last.op = "Bytes" THEN 2 ELSE 1>>, ok |-> TRUE]
    /\ heap' = [a \in DOMAIN heap |->
                  IF heap[a].kind = "Content"
                  THEN [heap[a] EXCEPT !.lines = @ \o B("S\r\n")] ELSE heap[a]]
    /\ UNCHANGED <<objects, catalog, resources, currentPage>>

\* document.Bytes(): arg counts the calls of Bytes() made in a row, up to 2.
Bytes ==
    /\ Running
    /\ out' = DocBytes(Doc)
    /\ last' = [op |-> "Bytes", page |-> NIL,
                arg |-> <<IF last.op = "Bytes" THEN 2 ELSE 1>>, ok |-> TRUE]
    /\ UNCHANGED <<heap, objects, catalog, resources, currentPage>>

(***************************************************************************)
(* Inputs                                                                  *)
(***************************************************************************)
F1 == B("F1")
F2 == B("F2")
Gopher == B("gopher")

\* (name, builtin) pairs given to addFont: three known fonts, two names, and
\* two codes outside the 14.
FontInputs == {<<F1, Courier>>, <<F1, Helvetica>>, <<F2, Symbol>>, <<F1, 0>>, <<F2, 999>>}
\* (name, file) pairs given to addImage.
ImageInputs == {<<Gopher, "gopher.jpg">>, <<Gopher, "wide.png">>,
                <<Gopher, "missing.jpg">>, <<Gopher, "corrupt.jpg">>}
\* Names given to setFont: F2 is registered in fewer documents than F1.
FontNames == {F1, F2}
\* Texts: plain, the three escaped characters, a two-byte UTF-8 character
\* (U+00E9), and the empty string.
Texts == {B("X"), B("(a)\\b"), <<195, 169>>, <<>>}

(***************************************************************************)
(* Spec: building documents and serializing them. ncalls counts the        *)
(* content-stream calls.                                                   *)
(***************************************************************************)
MaxObjects == 8
MaxOps == 2

Counted(A) == ncalls < MaxOps /\ A /\ ncalls' = ncalls + 1
Free(A) == A /\ UNCHANGED ncalls

Next ==
    \/ Len(objects) + 2 <= MaxObjects /\ Free(AddPage)
    \/ \E in \in FontInputs : Len(objects) < MaxObjects /\ Free(AddFont(in[1], in[2]))
    \/ \E in \in ImageInputs : Len(objects) < MaxObjects /\ Free(AddImage(in[1], in[2]))
    \/ \E p \in PageAddrs, name \in FontNames : Counted(SetFont(p, name))
    \/ \E p \in PageAddrs : Counted(DrawImage(p, Gopher, 250, 550))
    \/ \E p \in PageAddrs : Counted(Println(p, B("X")))
    \/ Free(Bytes)

Spec == Init /\ [][Next]_vars

(***************************************************************************)
(* SpecPage: the content stream of the current page. ncalls counts every   *)
(* call.                                                                   *)
(***************************************************************************)
MaxCalls == 4

Budget(A) == ncalls < MaxCalls /\ A /\ ncalls' = ncalls + 1

NextPage ==
    \/ Budget(AddPage)
    \/ Budget(AddFont(F1, Courier))
    \/ Budget(AddImage(Gopher, "wide.png"))
    \/ \E name \in FontNames : Budget(SetFont(currentPage, name))
    \/ Budget(SetFontSize(currentPage, 18))
    \/ \E text \in Texts : Budget(OutputText(currentPage, text))
    \/ \E text \in {B("X"), B("(a)\\b")} : Budget(PrintCall(currentPage, text))
    \/ \E text \in {B("X"), <<>>} : Budget(Println(currentPage, text))
    \/ Budget(DrawImage(currentPage, Gopher, 250, 550))
    \/ Budget(DrawBox(currentPage, 250, 500, 300, 20))
    \/ Budget(DrawLine(currentPage, 250, 480, 550, 480))
    \/ Budget(SetColour(currentPage, 255, 0, 0))
    \/ \E xy \in {<<0, 0>>, <<300, 440>>} : Budget(SetCursor(currentPage, xy[1], xy[2]))

SpecPage == Init /\ [][NextPage]_vars

(***************************************************************************)
(* Reading a serialized document back, as a PDF reader does                *)
(***************************************************************************)
EndsWith(s, t) == Len(s) >= Len(t) /\ SubSeq(s, Len(s) - Len(t) + 1, Len(s)) = t
At(s, pos, t) == pos + Len(t) <= Len(s) /\ SubSeq(s, pos + 1, pos + Len(t)) = t
IsPrefix(s, t) == Len(s) <= Len(t) /\ SubSeq(t, 1, Len(s)) = s
IsDigit(b) == b >= 48 /\ b <= 57

RECURSIVE ParseNat(_)
ParseNat(digs) ==
    IF digs = <<>> THEN 0
    ELSE 10 * ParseNat(SubSeq(digs, 1, Len(digs) - 1)) + (digs[Len(digs)] - 48)

RECURSIVE NextLF(_, _)
\* The index of the first line feed of s after position pos (0 if none).
NextLF(s, pos) ==
    IF pos + 1 > Len(s) THEN 0
    ELSE IF s[pos + 1] = 10 THEN pos + 1
    ELSE NextLF(s, pos + 1)

RECURSIVE DigitsStart(_, _)
\* The index at which the run of digits that ends at index e of s starts.
DigitsStart(s, e) == IF e >= 1 /\ IsDigit(s[e]) THEN DigitsStart(s, e - 1) ELSE e + 1

\* The number on the line before the final "%%EOF" line: the startxref value.
StartXref(o) ==
    LET e == Len(o) - Len(B("\r\n%%EOF\r\n"))
    IN  ParseNat(SubSeq(o, DigitsStart(o, e), e))

\* The position at which the 20-byte entries of the cross-reference section
\* start: after the "xref" line and the subsection line.
XrefEntries(o) == NextLF(o, NextLF(o, StartXref(o)))

\* The 20 bytes of entry i of the cross-reference section (entry 0 is the
\* free entry), and the offset an in-use entry gives.
XrefEntry(o, i) == SubSeq(o, XrefEntries(o) + 20 * i + 1, XrefEntries(o) + 20 * i + 20)
XrefOffset(o, i) == ParseNat(SubSeq(XrefEntry(o, i), 1, 10))

\* The bytes of object i of a serialized document of n objects: from its
\* offset to the next object's offset, or to the cross-reference section.
ObjectAt(o, i, n) ==
    SubSeq(o, XrefOffset(o, i) + 1,
           IF i < n THEN XrefOffset(o, i + 1) ELSE StartXref(o))

Fonts == heap[resources].fonts
Images == heap[resources].images
Serialized == last.op = "Bytes"

(***************************************************************************)
(* The claims                                                              *)
(***************************************************************************)

\* C1: in every serialized document with n registered objects the
\* cross-reference section holds, after the free entry, exactly n in-use
\* entries in id order; entry i gives the byte position at which the header
\* "<i> 0 obj" of object i starts: the first object starts right after the
\* file header and each other one right after the previous object's
\* "endobj" line; the offsets are strictly increasing.
C1_XrefOffsets ==
    Serialized =>
        LET n == Len(objects)
            sx == StartXref(out)
            entries == XrefEntries(out)
            entry == [i \in 1..n |-> SubSeq(out, entries + 20 * i + 1, entries + 20 * i + 20)]
            offset == [i \in 1..n |-> ParseNat(SubSeq(entry[i], 1, 10))]
        IN  /\ At(out, sx, B("xref\r\n"))
            /\ At(out, entries + 20 * (n + 1), B("trailer\r\n"))
            /\ \A i \in 1..n :
                /\ SubSeq(entry[i], 11, 20) = B(" 00000 n\r\n")
                /\ \A j \in 1..10 : IsDigit(entry[i][j])
                /\ At(out, offset[i], Itoa(i) \o B(" 0 obj\r\n"))
                /\ IF i = 1 THEN offset[i] = Len(Header)
                   ELSE /\ offset[i - 1] < offset[i]
                        /\ At(out, offset[i] - 8, B("endobj\r\n"))
                /\ SubSeq(out, offset[i] + 1, IF i < n THEN offset[i + 1] ELSE sx)
                      = ObjectBytes(Doc, objects[i])

\* C1 witness: a serialized document with two objects beyond the first six
\* and a content stream that two calls have written to.
C1_Witness ==
    /\ Serialized /\ Len(objects) = 8 /\ ncalls = 2
    /\ XrefOffset(out, 8) > XrefOffset(out, 7)

\* The registered objects carry the ids 1..n in registration order, and no
\* object is registered twice.
DenseIds ==
    /\ \A i \in 1..Len(objects) : heap[objects[i]].id = i
    /\ \A i, j \in 1..Len(objects) : i # j => objects[i] # objects[j]

\* C2: the registered objects carry the ids 1..n in registration order, n
\* being their number (so ids start at 1, none is shared or skipped), and no
\* step changes or reuses an id: the list of registered objects only grows
\* and every object in it keeps its id.
C2_DenseIds ==
    [][/\ DenseIds /\ DenseIds'
       /\ IsPrefix(objects, objects')
       /\ \A i \in 1..Len(objects) : heap'[objects[i]].id = heap[objects[i]].id]_vars

\* C2 witness: a font and an image were registered after the first page.
C2_Witness ==
    /\ Len(objects) = 8 /\ Len(Fonts) = 1 /\ Len(Images) = 1
    /\ heap[objects[8]].id = 8

\* The registry begins with the six objects of a new document, every Page
\* in it is immediately followed by its own Content, and no Content belongs
\* to two Pages.
Layout ==
    /\ Len(objects) >= 6
    /\ [i \in 1..6 |-> heap[objects[i]].kind]
         = <<"Catalog", "Pages", "Outlines", "Resources", "Page", "Content">>
    /\ \A i \in 1..Len(objects) :
         heap[objects[i]].kind = "Page" =>
             /\ i < Len(objects)
             /\ objects[i + 1] = heap[objects[i]].content
             /\ heap[objects[i + 1]].kind = "Content"
             /\ heap[objects[i]].id = i /\ heap[objects[i + 1]].id = i + 1
    /\ \A i \in 1..Len(objects) :
         heap[objects[i]].kind = "Content" => i > 1 /\ heap[objects[i - 1]].kind = "Page"
    /\ \A a, b \in DOMAIN heap :
         heap[a].kind = "Page" /\ heap[b].kind = "Page" /\ a # b
         => heap[a].content # heap[b].content

\* C3: the registered objects begin with Catalog (1), PageTree (2), Outline
\* (3), Resources (4), the first Page (5) and its Content (6); every Page, at
\* id k, is immediately followed by its own Content at id k+1, so that no two
\* Pages share a Content; and a call of addPage registers exactly two objects.
C3_Layout ==
    [][/\ Layout /\ Layout'
       /\ last'.op = "addPage" => Len(objects') = Len(objects) + 2]_vars

\* C3 witness: addPage has just added a second page to a document without fonts: objects 7 and 8 are its Page and Content.
C3_Witness ==
    /\ last.op = "addPage" /\ Len(objects) = 8 /\ Len(Fonts) = 0
    /\ heap[objects[7]].kind = "Page" /\ heap[objects[8]].kind = "Content"

RECURSIVE PageIdsFrom(_, _)
\* The ids of the Page objects among the registered objects of d from index
\* i on, in registry order.
PageIdsFrom(d, i) ==
    IF i > Len(d.objects) THEN <<>>
    ELSE (IF d.heap[d.objects[i]].kind = "Page" THEN <<d.heap[d.objects[i]].id>> ELSE <<>>)
         \o PageIdsFrom(d, i + 1)

RECURSIVE RefList(_)
RefList(ids) ==
    IF ids = <<>> THEN <<>> ELSE Itoa(Head(ids)) \o B(" 0 R ") \o RefList(Tail(ids))

\* With N Pages registered in document d, the PageTree renders with /Count N
\* and the N references of the Pages, pairwise distinct, in registry order;
\* o, when it is the serialized document, holds that rendering as the
\* PageTree's object.
PageTreeRendered(d, o, serialized) ==
    LET ids == PageIdsFrom(d, 1)
        tree == d.heap[d.heap[d.catalog].pdfPages]
    IN  /\ \A i, j \in 1..Len(ids) : i # j => ids[i] # ids[j]
        /\ PagesBytes(d, tree) =
              Itoa(tree.id) \o B(" 0 obj\r\n<<\r\n/Type /Pages\r\n")
              \o B("/MediaBox [ 0 0 595 842 ]\r\n")
              \o B("/Count ") \o Itoa(Len(ids)) \o B("\r\n")
              \o B("/Kids [ ") \o RefList(ids) \o B("]\r\n>>\r\nendobj\r\n")
        /\ serialized => ObjectAt(o, tree.id, Len(d.objects)) = PagesBytes(d, tree)

\* C4: with N Page objects registered (one per call of addPage), the
\* PageTree is serialized with /Count N and a /Kids list of exactly the N
\* references of the Pages, pairwise distinct, in the order of the registry,
\* which is the order of creation; and the page list only grows: every step
\* leaves the old list a prefix of the new one.
C4_PageTree ==
    [][/\ PageTreeRendered(Doc, out, Serialized)
       /\ PageTreeRendered(Doc', out', Serialized')
       /\ IsPrefix(PageList, PageList')]_vars

\* C4 witness: a serialized document of two pages.
C4_Witness == Serialized /\ Len(PageList) = 2 /\ Len(objects) = 8

\* C5: a call of Bytes() changes nothing of the document (the heap with
\* every buffer, cursor and list, the registry, the catalog, resources and
\* current-page pointers), and a call that directly follows another call of
\* Bytes() returns the same bytes.
C5_BytesReadOnly ==
    [][last'.op = "Bytes" =>
        /\ heap' = heap /\ objects' = objects /\ catalog' = catalog
        /\ resources' = resources /\ currentPage' = currentPage
        /\ last.op = "Bytes" => out' = out]_vars

\* C5 witness: Bytes() was called twice in a row on a document with content.
C5_Witness == Serialized /\ last.arg = <<2>> /\ ncalls > 0 /\ out # <<>>

\* C6: addFont with a code outside the 14 known ones, and addImage with a
\* file that cannot be opened or decoded, fail and leave the number of
\* registered objects, the font list and the image list as they were.
C6_FailedRegistration ==
    [][(\/ last'.op = "addFont" /\ ~(last'.arg[2] \in 1..14)
        \/ last'.op = "addImage" /\ last'.arg[2] \in {"missing.jpg", "corrupt.jpg"})
       => /\ ~last'.ok
          /\ Len(objects') = Len(objects)
          /\ heap'[resources'].fonts = Fonts
          /\ heap'[resources'].images = Images
          /\ heap' = heap]_vars

\* C6 witness: addFont(F2, 999) failed on a document that holds a font.
C6_Witness ==
    /\ last.op = "addFont" /\ last.arg = <<F2, 999>> /\ ~last.ok
    /\ Len(Fonts) = 1 /\ Len(objects) = 7

NoFontNamed(name) == \A k \in 1..Len(Fonts) : heap[Fonts[k]].name # name
NoImageNamed(name) == \A k \in 1..Len(Images) : heap[Images[k]].name # name

\* C7: setFont and drawImage called with a name that no registered Font or
\* Image has do not fail, and leave the page's font binding as it was.
C7_UnresolvedNameTolerated ==
    [][(\/ last'.op = "setFont" /\ NoFontNamed(last'.arg[1])
        \/ last'.op = "drawImage" /\ NoImageNamed(last'.arg[1]))
       => /\ last'.ok
          /\ heap'[last'.page].font = heap[last'.page].font]_vars

\* The last element of addrs whose name is `name`.
LastOf(addrs, name) ==
    addrs[CHOOSE k \in 1..Len(addrs) :
            /\ heap[addrs[k]].name = name
            /\ \A j \in (k + 1)..Len(addrs) : heap[addrs[j]].name # name]

\* C8: when one or more registered Fonts have the name given to setFont, the
\* page is bound to the one of them registered last, whatever fonts of other
\* names are registered; when one or more registered Images have the name
\* given to drawImage, the instructions appended take the width and height
\* of the one of them registered last.
C8_LastMatchWins ==
    /\ last.op = "setFont" /\ ~NoFontNamed(last.arg[1]) =>
          /\ last.ok
          /\ heap[last.page].font = LastOf(Fonts, last.arg[1])
    /\ last.op = "drawImage" /\ ~NoImageNamed(last.arg[1]) =>
          /\ last.ok
          /\ LET i == heap[LastOf(Images, last.arg[1])]
             IN  EndsWith(heap[heap[last.page].content].graphics,
                    B("q\r\n") \o Itoa(i.width) \o B(" 0 0 ") \o Itoa(i.height)
                    \o B(" ") \o Itoa(last.arg[2]) \o B(" ") \o Itoa(last.arg[3])
                    \o B(" cm\r\n/") \o last.arg[1] \o B(" Do\r\nQ\r\n"))

\* C8 witness: addFont("F1", Courier); addFont("F1", Helvetica); setFont("F1")
\* has bound the page to the Helvetica font.
C8_Witness ==
    /\ last.op = "setFont" /\ last.arg = <<F1>> /\ Len(Fonts) = 2
    /\ heap[Fonts[1]].name = F1 /\ heap[Fonts[1]].baseFont = B("Courier")
    /\ heap[Fonts[2]].name = F1 /\ heap[Fonts[2]].baseFont = B("Helvetica")
    /\ heap[last.page].font = Fonts[2]

TextOf(p) == heap[heap[p].content].text

\* C9 as stated: on a page with left margin 72, top margin 72, height 842
\* and font size 10 whose cursor is (0,0), outputText("X") appends a
\* positioning instruction for (72, 760) followed by the show-text
\* instruction.
C9_MarginsAdded ==
    /\ last.op = "outputText" /\ last.arg = <<B("X")>>
    /\ heap[last.page].leftMargin = 72 /\ heap[last.page].topMargin = 72
    /\ heap[last.page].height = 842 /\ heap[last.page].fontSize = 10
    /\ heap[last.page].x = 0 /\ heap[last.page].y = 0
    => EndsWith(TextOf(last.page), B("1 0 0 1 72 760 Tm\r\n(X) Tj\r\n"))

\* C9, amended: outputText("X") appends the positioning instruction for the
\* cursor (x, y) itself, immediately followed by the show-text instruction;
\* the margins enter only through addPage, which puts the cursor of a new
\* page at (leftMargin, height - topMargin - fontSize) = (72, 760).
C9_CursorIsPosition ==
    /\ last.op = "outputText" /\ last.arg = <<B("X")>> =>
          EndsWith(TextOf(last.page),
                   B("1 0 0 1 ") \o Itoa(heap[last.page].x) \o B(" ")
                   \o Itoa(heap[last.page].y) \o B(" Tm\r\n(X) Tj\r\n"))
    /\ last.op \in {"NewPdfDocument", "addPage"} =>
          /\ heap[currentPage].x = heap[currentPage].leftMargin
          /\ heap[currentPage].y = heap[currentPage].height
                                   - heap[currentPage].topMargin - heap[currentPage].fontSize
          /\ heap[currentPage].x = 72 /\ heap[currentPage].y = 760

\* C9 witness: outputText("X") with the cursor at (0,0), at font size 10,
\* wrote the position (0, 0).
C9_Witness ==
    /\ last.op = "outputText" /\ last.arg = <<B("X")>>
    /\ heap[last.page].x = 0 /\ heap[last.page].y = 0 /\ heap[last.page].fontSize = 10
    /\ EndsWith(TextOf(last.page), B("1 0 0 1 0 0 Tm\r\n(X) Tj\r\n"))

RECURSIVE EscapedBytes(_)
\* text with each '(' , ')' and '\' prefixed by one '\' and every other
\* byte copied.
EscapedBytes(text) ==
    IF text = <<>> THEN <<>>
    ELSE (IF Head(text) \in {40, 41, 92} THEN <<92, Head(text)>> ELSE <<Head(text)>>)
         \o EscapedBytes(Tail(text))

\* C10: outputText (and print and println through it) writes into the
\* show-text instruction the text with each '(' , ')' and '\' prefixed by one
\* '\' and every other byte copied unchanged and in order.
C10_EscapedBytewise ==
    last.op \in {"outputText", "print", "println"} =>
        EndsWith(TextOf(last.page), B("(") \o EscapedBytes(last.arg[1]) \o B(") Tj\r\n"))

\* The two lines outputText appends for text at the cursor (x, y): the
\* positioning instruction and the show-text instruction.
TextLines(x, y, text) ==
    B("1 0 0 1 ") \o Itoa(x) \o B(" ") \o Itoa(y) \o B(" Tm\r\n")
    \o B("(") \o EscapeFrom(text, 1) \o B(") Tj\r\n")

\* C11: println(text) appends the text at the cursor the page had, then puts
\* x at the left margin (72) and y one font size lower, so that a println
\* that follows a println on the same page writes a position with x = 72 and
\* y one font size below the previous line's; print(text) appends the text
\* at the cursor, leaves y unchanged and moves x right by
\* len(text) * fontSize, the length being that of the unescaped text.
\* Neither changes the font size.
C11_PrintlnPrint ==
    [][LET p == last'.page
           pg == heap[p]
           text == last'.arg[1]
       IN  /\ last'.op = "println" =>
                /\ heap'[heap'[p].content].text = TextOf(p) \o TextLines(pg.x, pg.y, text)
                /\ heap'[p].x = pg.leftMargin /\ heap'[p].x = 72
                /\ heap'[p].y = pg.y - pg.fontSize
                /\ heap'[p].fontSize = pg.fontSize
                /\ (last.op = "println" /\ last.page = p) =>
                      /\ pg.x = 72
                      /\ EndsWith(TextOf(p),
                                  B(" ") \o Itoa(pg.y + pg.fontSize) \o B(" Tm\r\n(")
                                  \o EscapeFrom(last.arg[1], 1) \o B(") Tj\r\n"))
           /\ last'.op = "print" =>
                /\ heap'[heap'[p].content].text = TextOf(p) \o TextLines(pg.x, pg.y, text)
                /\ heap'[p].y = pg.y
                /\ heap'[p].x = pg.x + Len(text) * pg.fontSize
                /\ heap'[p].fontSize = pg.fontSize]_vars

\* C11 witness: a print of the 5-byte text (a)\b (7 bytes once escaped) at
\* font size 10 moved x from 72 to 122, and the println after it wrote its
\* line at (122, 760) and left the cursor at (72, 750).
C11_Witness ==
    /\ last.op = "println" /\ last.arg = <<B("X")>>
    /\ heap[last.page].x = 72 /\ heap[last.page].y = 750
    /\ EndsWith(TextOf(last.page),
                TextLines(72, 760, B("(a)\\b")) \o TextLines(122, 760, B("X")))

RECURSIVE LineStart(_, _, _)
\* The position of the first line of s, at or after the line that starts at
\* position pos, that begins with t (-1 if there is none).
LineStart(s, pos, t) ==
    IF At(s, pos, t) THEN pos
    ELSE IF NextLF(s, pos) = 0 THEN -1
    ELSE LineStart(s, NextLF(s, pos), t)

\* What a reader finds in the bytes obj of a stream object: the number its
\* "/Length" line declares, and the position after its "stream" line.
DeclaredLength(obj) ==
    LET l == LineStart(obj, 0, B("/Length "))
    IN  ParseNat(SubSeq(obj, l + Len(B("/Length ")) + 1, NextLF(obj, l) - 2))
StreamStart(obj) == LineStart(obj, 0, B("stream\r\n")) + Len(B("stream\r\n"))
\* The DeclaredLength bytes after the "stream" line.
StreamData(obj) == SubSeq(obj, StreamStart(obj) + 1, StreamStart(obj) + DeclaredLength(obj))
EndMarkers == B("endstream\r\nendobj\r\n")

\* The files that open and decode.
ImageFiles == {f \in FileNames : Opens(f) /\ Decodes(f)}

\* C12: in every serialized document, each Content and each Image object has
\* a "/Length" line and a "stream" line, and the declared number of bytes
\* after the "stream" line is followed at once by "endstream", "endobj" and
\* the end of the object. For a Content these bytes are "BT", the text
\* buffer, "ET", the lines buffer, "S" and the graphics buffer in a row;
\* for an Image they are the base-85 text, whose length is neither that of
\* the raw pixels nor that of the compressed data.
C12_StreamLength ==
    Serialized =>
        \A i \in 1..Len(objects) :
            LET o == heap[objects[i]]
                obj == ObjectAt(out, i, Len(objects))
                n == DeclaredLength(obj)
                start == StreamStart(obj)
                data == StreamData(obj)
            IN  o.kind \in {"Content", "Image"} =>
                  /\ LineStart(obj, 0, B("/Length ")) > 0
                  /\ LineStart(obj, 0, B("stream\r\n")) > LineStart(obj, 0, B("/Length "))
                  /\ At(obj, start + n, EndMarkers)
                  /\ Len(obj) = start + n + Len(EndMarkers)
                  /\ o.kind = "Content" =>
                        /\ data = B("BT\r\n") \o o.text \o B("\r\nET\r\n") \o o.lines
                                  \o B("S\r\n") \o o.graphics
                        /\ n = 4 + Len(o.text) + 6 + Len(o.lines) + 3 + Len(o.graphics)
                  /\ o.kind = "Image" =>
                        /\ data = o.ascii85data
                        /\ \E f \in ImageFiles :
                              LET raw == Flatten(Decoded(f).pix)
                              IN  /\ data = Ascii85(Zlib(raw))
                                  /\ n # Len(raw) /\ n # Len(Zlib(raw))

\* C12 witness: a serialized document with the one-pixel image (3 raw bytes,
\* 14 compressed, 18 in base 85) and a page on which println and drawImage
\* wrote: the image declares 18 and the Content more than an untouched one.
C12_Witness ==
    /\ Serialized /\ Len(Images) = 1
    /\ DeclaredLength(ObjectAt(out, heap[Images[1]].id, Len(objects))) = 18
    /\ \E p \in PageAddrs :
          /\ EndsWith(TextOf(p), B("(X) Tj\r\n"))
          /\ EndsWith(heap[heap[p].content].graphics, B("/gopher Do\r\nQ\r\n"))
          /\ DeclaredLength(ObjectAt(out, heap[heap[p].content].id, Len(objects)))
                = Len(ContentStream(heap[heap[p].content]))
          /\ Len(ContentStream(heap[heap[p].content]))
                > Len(ContentStream(NewPdfDocument.heap[6]))

\* Entry i >= 1 of the cross-reference section that starts at position e of
\* o is an in-use entry: ten digits, " 00000 n" and the line end.
InUseEntry(o, e, i) ==
    /\ \A k \in 1..10 : IsDigit(o[e + 20 * (i - 1) + k])
    /\ At(o, e + 20 * (i - 1) + 10, B(" 00000 n\r\n"))

\* The tail of a serialized document o of n objects, with sp1 after the
\* subsection line's count and sp2 after the trailer dictionary's ">>": at
\* the position the startxref line gives, which is where the last object
\* ends, o continues with the "xref" line, the subsection line "0 <n+1>",
\* the free entry, n in-use entries, and the trailer with /Size n, /Root
\* the reference to the Catalog, object 1, the startxref value and the
\* "%%EOF" line, and ends there.
TailShape(o, n, sp1, sp2) ==
    LET sx == StartXref(o)
        head == B("xref\r\n0 ") \o Itoa(n + 1) \o sp1 \o B("\r\n0000000000 65535 f\r\n")
        e == sx + Len(head)
        trailer == B("trailer\r\n<<\r\n/Size ") \o Itoa(n)
                   \o B("\r\n/Root ") \o Itoa(heap[catalog].id) \o B(" 0 R\r\n>>") \o sp2
                   \o B("\r\nstartxref\r\n") \o Itoa(sx) \o B("\r\n%%EOF\r\n")
    IN  /\ heap[catalog].kind = "Catalog" /\ heap[catalog].id = 1
        /\ sx = XrefOffset(o, n) + Len(ObjectBytes(Doc, objects[n]))
        /\ At(o, sx, head)
        /\ \A i \in 1..n : InUseEntry(o, e, i)
        /\ At(o, e + 20 * n, trailer)
        /\ Len(o) = e + 20 * n + Len(trailer)

\* C13 as stated: the tail of every serialized document is exactly
\* "xref", "0 <n+1>", the free entry, one in-use entry per object,
\* "trailer", "<<", "/Size <n>", "/Root <catalog-ref>", ">>", "startxref",
\* the offset of "xref" and "%%EOF", each followed by CR LF, with no other
\* byte.
C13_TailExact == Serialized => TailShape(out, Len(objects), <<>>, <<>>)

\* C13, amended: the same tail, except that the subsection line is
\* "0 <n+1> " and the line closing the trailer dictionary is ">> ", each
\* with one space before its CR LF.
C13_TailWithSpaces == Serialized => TailShape(out, Len(objects), B(" "), B(" "))

\* C13 witness: a serialized document of 8 objects, whose tail starts with
\* "xref", "0 9 " and ends with ">> ", "startxref", the offset and "%%EOF".
C13_Witness ==
    /\ Serialized /\ Len(objects) = 8
    /\ At(out, StartXref(out), B("xref\r\n0 9 \r\n0000000000 65535 f\r\n"))
    /\ EndsWith(out, B("/Size 8\r\n/Root 1 0 R\r\n>> \r\nstartxref\r\n")
                     \o Itoa(StartXref(out)) \o B("\r\n%%EOF\r\n"))

\* The content-stream operations of a page.
ContentOps ==
    {"setFont", "setFontSize", "outputText", "print", "println",
     "drawImage", "drawBox", "drawLine", "setColour"}

\* C14: a content-stream operation on page p, whether it returns or
\* panics, keeps p's Content, and each of the three buffers of that Content
\* before the call is a prefix of the buffer after it; every other object
\* (the other pages with their cursors, their Contents, the PageTree, the
\* Resources, the fonts and images) is unchanged, and so are the ids of p
\* and its Content, the registered-object list, the page list and the font
\* and image lists.
C14_AppendOnly ==
    [][last'.op \in ContentOps =>
         LET p == last'.page
             c == heap[p].content
         IN  /\ heap'[p].content = c
             /\ IsPrefix(heap[c].text, heap'[c].text)
             /\ IsPrefix(heap[c].lines, heap'[c].lines)
             /\ IsPrefix(heap[c].graphics, heap'[c].graphics)
             /\ Len(heap') = Len(heap)
             /\ \A a \in 1..Len(heap) : a \notin {p, c} => heap'[a] = heap[a]
             /\ heap'[p].id = heap[p].id /\ heap'[c].id = heap[c].id
             /\ heap'[p].parent = heap[p].parent
             /\ objects' = objects /\ catalog' = catalog /\ resources' = resources
             /\ currentPage' = currentPage
             /\ PageList' = PageList /\ Fonts' = Fonts /\ Images' = Images]_vars

\* C14 witness: an operation has just returned on the second page of a
\* document whose first page had been written to, and both pages hold more
\* text than a new page does.
C14_Witness ==
    /\ last.op \in ContentOps /\ last.ok
    /\ Len(PageList) = 2 /\ last.page = PageList[2]
    /\ Len(TextOf(PageList[1])) > Len(NewPdfDocument.heap[6].text)
    /\ Len(TextOf(PageList[2])) > Len(NewPdfDocument.heap[6].text)

\* C15: setFontSize(points) on any page, a new page on which setFont was
\* never called included, returns, sets the page's font size to points and
\* appends exactly the one line "/<name of the page's font> <points> Tf" to
\* the text buffer; the cursor and the font of the page are unchanged.
C15_SetFontSizeTotal ==
    [][last'.op = "setFontSize" =>
         LET p == last'.page
             pg == heap[p]
         IN  /\ last'.ok
             /\ heap'[p].fontSize = last'.arg[1]
             /\ heap'[pg.content].text =
                    heap[pg.content].text \o B("/") \o heap[pg.font].name \o B(" ")
                    \o Itoa(last'.arg[1]) \o B(" Tf\r\n")
             /\ heap'[p].x = pg.x /\ heap'[p].y = pg.y
             /\ heap'[p].font = pg.font]_vars

RECURSIVE DigitsEnd(_, _)
\* The position after the run of digits of s that starts after position pos.
DigitsEnd(s, pos) ==
    IF pos + 1 <= Len(s) /\ IsDigit(s[pos + 1]) THEN DigitsEnd(s, pos + 1) ELSE pos

RECURSIVE NextSpace(_, _)
\* The index of the first space of s after position pos (Len(s) if none).
NextSpace(s, pos) ==
    IF pos + 1 > Len(s) THEN Len(s)
    ELSE IF s[pos + 1] = 32 THEN pos + 1
    ELSE NextSpace(s, pos + 1)

\* The reference "<id> 0 R" that starts after position pos of s: its id, or
\* -1 when there is no reference there.
RefIdAt(s, pos) ==
    LET e == DigitsEnd(s, pos)
    IN  IF e > pos /\ At(s, e, B(" 0 R")) THEN ParseNat(SubSeq(s, pos + 1, e)) ELSE -1

\* The id of the reference that is the value of the line of obj that starts
\* with key (-1 when there is no such line, or no reference and line end on it).
RefOf(obj, key) ==
    LET l == LineStart(obj, 0, key)
    IN  IF l >= 0 /\ At(obj, DigitsEnd(obj, l + Len(key)), B(" 0 R\r\n"))
        THEN RefIdAt(obj, l + Len(key)) ELSE -1

RECURSIVE RefsFrom(_, _, _)
\* The ids of the references listed in s from position pos up to the closing
\* "]" or ">>", each reference followed by a space and, when named, preceded
\* by "/<name> " (an id of -1 stands for anything else found there).
RefsFrom(s, pos, named) ==
    IF At(s, pos, B("]")) \/ At(s, pos, B(">>")) THEN <<>>
    ELSE LET r == IF named THEN NextSpace(s, pos) ELSE pos
             id == IF named /\ ~At(s, pos, B("/")) THEN -1 ELSE RefIdAt(s, r)
         IN  IF id = -1 THEN <<-1>>
             ELSE <<id>> \o RefsFrom(s, DigitsEnd(s, r) + Len(B(" 0 R ")), named)

\* The ids listed on the line of obj that starts with key (<<>> when obj has
\* no such line).
RefsOf(obj, key, named) ==
    LET l == LineStart(obj, 0, key)
    IN  IF l < 0 THEN <<>> ELSE RefsFrom(obj, l + Len(key), named)

\* id is the id of a registered object of the given kind.
RefersTo(id, kind) ==
    /\ id \in 1..Len(objects)
    /\ heap[objects[id]].kind = kind
    /\ heap[objects[id]].id = id

\* The ids of the registered objects of the given kind.
IdsOfKind(kind) == {i \in 1..Len(objects) : heap[objects[i]].kind = kind}
Range(seq) == {seq[k] : k \in 1..Len(seq)}

\* C16: in every serialized document each reference written is the id of a
\* registered object of the kind expected there: the trailer's /Root a
\* Catalog; the Catalog's /Outlines an Outlines and /Pages a Pages; each
\* /Kids entry a Page; each Page's /Parent a Pages, /Resources a Resources
\* and /Contents a Content, its own; each /Font entry of the Resources a
\* Font and each /XObject entry an Image. Every Page has one Content and
\* no two Pages the same one, and the /Font and /XObject entries are the ids
\* of all registered Fonts and Images, those registered after the Resources
\* object included, each once, in the order of the Resources' lists.
C16_References ==
    Serialized =>
        LET n == Len(objects)
            trailer == SubSeq(out, StartXref(out) + 1, Len(out))
            contents(i) == RefOf(ObjectAt(out, i, n), B("/Contents "))
        IN  /\ RefersTo(RefOf(trailer, B("/Root ")), "Catalog")
            /\ \A i \in 1..n :
                  LET o == heap[objects[i]]
                      obj == ObjectAt(out, i, n)
                      kids == RefsOf(obj, B("/Kids [ "), FALSE)
                      fonts == RefsOf(obj, B("/Font << "), TRUE)
                      images == RefsOf(obj, B("/XObject << "), TRUE)
                  IN  /\ o.kind = "Catalog" =>
                            /\ RefersTo(RefOf(obj, B("/Outlines ")), "Outlines")
                            /\ RefersTo(RefOf(obj, B("/Pages ")), "Pages")
                      /\ o.kind = "Pages" =>
                            /\ \A k \in 1..Len(kids) : RefersTo(kids[k], "Page")
                            /\ Range(kids) = IdsOfKind("Page")
                      /\ o.kind = "Page" =>
                            /\ RefersTo(RefOf(obj, B("/Parent ")), "Pages")
                            /\ RefersTo(RefOf(obj, B("/Resources ")), "Resources")
                            /\ RefersTo(contents(i), "Content")
                            /\ contents(i) = heap[o.content].id
                      /\ o.kind = "Resources" =>
                            /\ \A k \in 1..Len(fonts) : RefersTo(fonts[k], "Font")
                            /\ \A k \in 1..Len(images) : RefersTo(images[k], "Image")
                            /\ fonts = [k \in 1..Len(o.fonts) |-> heap[o.fonts[k]].id]
                            /\ images = [k \in 1..Len(o.images) |-> heap[o.images[k]].id]
                            /\ Range(fonts) = IdsOfKind("Font")
                            /\ Range(images) = IdsOfKind("Image")
                            /\ Cardinality(Range(fonts)) = Len(fonts)
                            /\ Cardinality(Range(images)) = Len(images)
            /\ \A i, j \in IdsOfKind("Page") : i # j => contents(i) # contents(j)
            /\ {contents(i) : i \in IdsOfKind("Page")} = IdsOfKind("Content")

\* C16 witness: a serialized document in which a font and an image were
\* registered after the Resources (object 4), as objects 7 and 8, and the
\* Resources object lists them under these ids.
C16_Witness ==
    /\ Serialized /\ Len(objects) = 8
    /\ heap[objects[7]].kind = "Font" /\ heap[objects[8]].kind = "Image"
    /\ RefsOf(ObjectAt(out, 4, 8), B("/Font << "), TRUE) = <<7>>
    /\ RefsOf(ObjectAt(out, 4, 8), B("/XObject << "), TRUE) = <<8>>
    /\ RefOf(ObjectAt(out, 5, 8), B("/Contents ")) = 6

====
